---- MODULE Spec2Model ----
(***************************************************************************)
(* A model of the Olist dashboard: the pandas table transforms of the      *)
(* analysis modules and report pages, and the Streamlit session that loads *)
(* the tables and renders the pages.                                       *)
(*                                                                         *)
(* Tables are sequences of rows (records).  Money is kept in whole units   *)
(* and time in whole days, so sums and differences are exact; ratios are   *)
(* kept as <<numerator, denominator>> pairs.  A missing value (NaN / NaT / *)
(* None) is an explicit marker, never a number.                            *)
(***************************************************************************)
EXTENDS Integers, Sequences, FiniteSets, TLC

VARIABLES
    orders,             \* SpecOrders: the orders DataFrame handed to an analysis
    derived,            \* SpecOrders: what the last analysis call derived from it
    order_items,        \* SpecRevenue: the order_items table
    products,           \* SpecRevenue: the products table
    revenue,            \* SpecRevenue: what the last revenue/vendor call returned
    state_stats,        \* SpecGini: the per-state table of the geographic analysis
    regional,           \* SpecGini: what the regional concentration chart returned
    df,                 \* SpecColumns: the columns and row count of an input DataFrame
    call,               \* SpecColumns: the last function called on it and its outcome
    delay_column,       \* SpecAnalyzer: the Delay column of the orders given to OrdersAnalyzer
    analyzer,           \* SpecAnalyzer: the OrdersAnalyzer constructed from it
    geo_orders,         \* SpecLate: the orders table given to the geographic analysis
    geo,                \* SpecLate: what get_geographic_analysis returned for it
    session_state,      \* Spec: st.session_state of the browser session
    data_cache,         \* Spec: the st.cache_data entries of the three loaders
    analysis_cache,     \* Spec: the st.cache_data entries of the page analyses
    now,                \* Spec: the clock, in seconds
    shown,              \* Spec: what the last script run put on the screen
    body_runs           \* Spec: how often the body of a loader or analysis has run

ordVars == <<orders, derived>>
revVars == <<order_items, products, revenue>>
giniVars == <<state_stats, regional>>
colVars == <<df, call>>
anaVars == <<delay_column, analyzer>>
geoVars == <<geo_orders, geo>>
sessVars == <<session_state, data_cache, analysis_cache, now, shown, body_runs>>
vars == <<ordVars, revVars, giniVars, colVars, anaVars, geoVars, sessVars>>

\* what the operations of one part of the program leave alone
notOrdVars == <<revVars, giniVars, colVars, anaVars, geoVars, sessVars>>
notRevVars == <<ordVars, giniVars, colVars, anaVars, geoVars, sessVars>>
notGiniVars == <<ordVars, revVars, colVars, anaVars, geoVars, sessVars>>
notColVars == <<ordVars, revVars, giniVars, anaVars, geoVars, sessVars>>
notAnaVars == <<ordVars, revVars, giniVars, colVars, geoVars, sessVars>>
notGeoVars == <<ordVars, revVars, giniVars, colVars, anaVars, sessVars>>
notSessVars == <<ordVars, revVars, giniVars, colVars, anaVars, geoVars>>

-----------------------------------------------------------------------------
(* Bounds of the model. *)

MaxOrders == 2
MaxDay == 1
MaxItems == 2
MaxProducts == 1
MaxStates == 3
MaxStateOrders == 4
MaxMissing == 2
MaxFrameRows == 1
MaxDelayCells == 2
TicksPerTtl == 1
MaxTicks == 1
MaxBodyRuns == 2
MaxWideOrders == 2

-----------------------------------------------------------------------------
(* Generic helpers. *)

RECURSIVE SumSeq(_)
SumSeq(s) == IF s = <<>> THEN 0 ELSE Head(s) + SumSeq(Tail(s))

SeqsUpTo(S, n) == UNION {[1..k -> S] : k \in 0..n}

Abs(n) == IF n < 0 THEN -n ELSE n

RECURSIVE GCD(_, _)
GCD(a, b) == IF b = 0 THEN a ELSE GCD(b, a % b)

\* A float is kept as an exact ratio <<numerator, denominator>>, denominator > 0,
\* in lowest terms; <<0, 0>> is NaN.
RatNaN == <<0, 0>>
Rat(n, d) ==
    IF d = 0 THEN RatNaN
    ELSE LET g == GCD(Abs(n), Abs(d))
             sgn == IF d < 0 THEN -1 ELSE 1
         IN <<sgn * (n \div g), sgn * (d \div g)>>
IsNaN(x) == x[2] = 0
RatSub(x, y) == IF IsNaN(x) \/ IsNaN(y) THEN RatNaN
                ELSE Rat(x[1] * y[2] - y[1] * x[2], x[2] * y[2])
RatDiv(x, y) == IF IsNaN(x) \/ IsNaN(y) THEN RatNaN ELSE Rat(x[1] * y[2], x[2] * y[1])
\* comparisons with NaN are False, as for floats
RatLess(x, y) == ~IsNaN(x) /\ ~IsNaN(y) /\ x[1] * y[2] < y[1] * x[2]
RatLeq(x, y) == ~IsNaN(x) /\ ~IsNaN(y) /\ x[1] * y[2] <= y[1] * x[2]

\* Series.cumsum()
Cumsum(s) == [i \in 1..Len(s) |-> SumSeq(SubSeq(s, 1, i))]

\* np.trapz / np.trapezoid (y, dx=1) of a sequence of ratios with one common
\* denominator: sum of (y[i] + y[i+1]) / 2; 0 for fewer than two points
Trapz(numerators, denominator) ==
    IF Len(numerators) < 2 THEN <<0, 1>>
    ELSE Rat(SumSeq([i \in 1..(Len(numerators) - 1) |-> numerators[i] + numerators[i + 1]]),
             2 * denominator)

\* np.linspace(0, 100, n), as numerators over the common denominator n - 1
LinspaceNumerators(n) == [i \in 1..n |-> 100 * (i - 1)]
LinspaceDenominator(n) == IF n > 1 THEN n - 1 ELSE 1

-----------------------------------------------------------------------------
(* Dates and time differences.                                             *)
(* A datetime64 / timedelta64 value is either NaT or a whole number of     *)
(* days.  A cell of an object-dtype column read from CSV is a string that  *)
(* parses to a date, a string that does not, or NaN (an empty field).      *)

NaT == [nat |-> TRUE, t |-> 0]
Stamp(d) == [nat |-> FALSE, t |-> d]

Days == 0..MaxDay
DateCells(dtype) ==
    IF dtype = "object"
    THEN {[kind |-> "date", t |-> d] : d \in Days}
            \cup {[kind |-> "nan", t |-> 0], [kind |-> "bad", t |-> 0]}
    ELSE {[kind |-> "date", t |-> d] : d \in Days} \cup {[kind |-> "nan", t |-> 0]}

\* pd.to_datetime(column, errors='coerce') on one cell
ToDatetime(cell) == IF cell.kind = "date" THEN Stamp(cell.t) ELSE NaT

\* the cell of a column that is already datetime64 (NaT where the cell is missing)
AsDatetime(cell) == IF cell.kind = "date" THEN Stamp(cell.t) ELSE NaT

\* the conversion loop of the pages: only object columns are parsed
ConvertDateCell(dtype, cell) ==
    IF dtype = "object" THEN ToDatetime(cell) ELSE AsDatetime(cell)

\* datetime64 - datetime64, elementwise: NaT if either side is NaT
DatetimeSub(a, b) == IF a.nat \/ b.nat THEN NaT ELSE Stamp(a.t - b.t)

\* Series < pd.Timedelta(0), elementwise: a comparison with NaT is False
TdNegative(td) == ~td.nat /\ td.t < 0

-----------------------------------------------------------------------------
(* The orders table. *)

OrderStatuses == {"delivered", "shipped"}

\* the rows of an orders table; the order_status column may be absent
OrderRows(dtype, has_order_status) ==
    IF has_order_status
    THEN [order_status : OrderStatuses,
          order_estimated_delivery_date : DateCells(dtype),
          order_delivered_customer_date : DateCells(dtype)]
    ELSE [order_estimated_delivery_date : DateCells(dtype),
          order_delivered_customer_date : DateCells(dtype)]

OrdersFrames ==
    UNION {[date_dtype : {dtype}, has_order_status : {has_order_status},
            rows : SeqsUpTo(OrderRows(dtype, has_order_status), MaxOrders)]
             : dtype \in {"object", "datetime64"}, has_order_status \in BOOLEAN}

\* a slip DelayOf could have: the operands the other way round
DelayOfSwapped(dtype, row) ==
    DatetimeSub(ConvertDateCell(dtype, row.order_delivered_customer_date),
                ConvertDateCell(dtype, row.order_estimated_delivery_date))

\* delay_data['Delay'] = estimated - delivered, on the converted columns
DelayOf(dtype, row) ==
    DatetimeSub(ConvertDateCell(dtype, row.order_estimated_delivery_date),
                ConvertDateCell(dtype, row.order_delivered_customer_date))

\* a slip NetStateOf could have: the status compared with the derived spelling
NetStateOfCapitalised(status) ==
    IF status = "Delivered" THEN "Delivered" ELSE "Not_Delivered"

\* the Net_State lambda of the pages
NetStateOf(status) == IF status = "delivered" THEN "Delivered" ELSE "Not_Delivered"

\* the columns a page derives for one row: Net_State from order_status when
\* the table has that column, 'Delivered' for every row when it has not
DeriveRow(frame, row) ==
    IF frame.has_order_status
    THEN [order_status |-> row.order_status,
          Delay |-> DelayOf(frame.date_dtype, row),
          Net_State |-> NetStateOf(row.order_status)]
    ELSE [Delay |-> DelayOf(frame.date_dtype, row),
          Net_State |-> "Delivered"]

DeriveRows(frame) ==
    [i \in 1..Len(frame.rows) |-> DeriveRow(frame, frame.rows[i])]

NoResult ==
    [fn |-> "none", rows |-> <<>>, clean |-> <<>>, delayed |-> <<>>, on_time_rate |-> <<>>]

\* Series > pd.Timedelta(0) and Series == pd.Timedelta(0), elementwise
TdPositive(td) == ~td.nat /\ td.t > 0
TdZero(td) == ~td.nat /\ td.t = 0

\* count / total * 100
Percent(count, total) == Rat(100 * count, total)

\* pages/7: what get_delay_analysis returns for an orders table
GetDelayAnalysisResult(orders_data) ==
    LET delay_data == DeriveRows(orders_data)
        delay_data_clean == SelectSeq(delay_data, LAMBDA r : ~r.Delay.nat)
        delayed_orders == SelectSeq(delay_data_clean, LAMBDA r : TdNegative(r.Delay))
    IN [fn |-> "get_delay_analysis", rows |-> delay_data,
        clean |-> delay_data_clean, delayed |-> delayed_orders,
        on_time_rate |-> <<>>]

\* Delay.dt.total_seconds() / (24 * 3600): the delay in days, NaN for NaT
DelayDaysOf(td) == IF td.nat THEN RatNaN ELSE Rat(td.t, 1)

SlaTierNames ==
    {"Within 1 day", "1-3 days late", "3-7 days late", "More than 7 days late",
     "Early delivery"}

\* pages/9: the condition of each SLA tier on one delay_days value; every
\* comparison with NaN is False
InSlaTier(tier, delay_days) ==
    CASE tier = "Within 1 day" ->
            RatLeq(Rat(-1, 1), delay_days) /\ RatLeq(delay_days, Rat(0, 1))
      [] tier = "1-3 days late" ->
            RatLess(delay_days, Rat(-1, 1)) /\ RatLeq(Rat(-3, 1), delay_days)
      [] tier = "3-7 days late" ->
            RatLess(delay_days, Rat(-3, 1)) /\ RatLeq(Rat(-7, 1), delay_days)
      [] tier = "More than 7 days late" -> RatLess(delay_days, Rat(-7, 1))
      [] tier = "Early delivery" -> RatLess(Rat(0, 1), delay_days)

\* pages/9: count = condition.sum() for each tier, over the delivered orders
SlaCompliance(delivered_orders) ==
    [tier \in SlaTierNames |->
        Len(SelectSeq(delivered_orders,
                      LAMBDA r : InSlaTier(tier, DelayDaysOf(r.Delay))))]

\* pages/9: what get_delivery_performance_analysis returns for an orders table
GetDeliveryPerformanceAnalysisResult(orders_data) ==
    LET perf_data == DeriveRows(orders_data)
        delivered_orders == SelectSeq(perf_data, LAMBDA r : r.Net_State = "Delivered")
        total_delivered == Len(delivered_orders)
        on_time_delivered == Len(SelectSeq(delivered_orders, LAMBDA r : TdZero(r.Delay)))
    IN [fn |-> "get_delivery_performance_analysis", rows |-> perf_data,
        clean |-> delivered_orders,
        delayed |-> SelectSeq(delivered_orders, LAMBDA r : TdNegative(r.Delay)),
        on_time_rate |-> IF total_delivered > 0
                         THEN <<Percent(on_time_delivered, total_delivered)>>
                         ELSE <<Rat(0, 1)>>,
        total_delivered |-> total_delivered,
        sla_compliance |-> IF total_delivered > 0
                           THEN <<SlaCompliance(delivered_orders)>>
                           ELSE <<>>]

\* pages/1, lines 84-115: the delay part of what compute_main_insights
\* returns; the on_time_rate key is set only when there is a delivered order.
\* The block is one try.  With an order_status column and no row, line 92
\* divides delivered_count (0) by len(orders) (0): ZeroDivisionError, before
\* the delay block is reached.  Without the column
\* orders_clean['order_status'] raises KeyError.  The except clause turns
\* either into a warning: no delay key is set.
ComputeMainInsightsDelay(orders_data) ==
    LET orders_clean == DeriveRows(orders_data)
        delivered_orders == SelectSeq(orders_clean, LAMBDA r : r.order_status = "delivered")
        delayed_orders == SelectSeq(delivered_orders, LAMBDA r : TdNegative(r.Delay))
        delay_rate == Percent(Len(delayed_orders), Len(delivered_orders))
    IN IF orders_data.has_order_status /\ Len(orders_data.rows) = 0
       THEN [fn |-> "compute_main_insights", rows |-> orders_clean,
             clean |-> <<>>, delayed |-> <<>>, on_time_rate |-> <<>>,
             warning |-> "ZeroDivisionError"]
       ELSE IF ~orders_data.has_order_status
       THEN [fn |-> "compute_main_insights", rows |-> orders_clean,
             clean |-> <<>>, delayed |-> <<>>, on_time_rate |-> <<>>,
             warning |-> "KeyError"]
       ELSE [fn |-> "compute_main_insights", rows |-> orders_clean,
             clean |-> delivered_orders, delayed |-> delayed_orders,
             on_time_rate |-> IF Len(delivered_orders) > 0
                              THEN <<RatSub(Rat(100, 1), delay_rate)>>
                              ELSE <<>>,
             warning |-> ""]

\* analysis/orders_analysis.py: OrdersAnalyzer is given the pre-cleaned orders,
\* the table with Delay (a timedelta already) and Net_State derived
AnalyzerOrders(orders_data) == DeriveRows(orders_data)

\* OrdersAnalyzer.get_delivery_performance.  .loc keeps the index labels of
\* working_clean (the positions in self.orders): index names, for each of
\* the four groups, the labels of its rows
GetDeliveryPerformanceResult(orders_data) ==
    LET working == AnalyzerOrders(orders_data)
        working_clean == SelectSeq(working, LAMBDA r : ~r.Delay.nat)
        InGroup(r, late, state) ==
            /\ (IF late THEN TdNegative(r.Delay) ELSE TdPositive(r.Delay))
            /\ r.Net_State = state
        Group(late, state) == SelectSeq(working_clean, LAMBDA r : InGroup(r, late, state))
        Labels(late, state) ==
            {i \in 1..Len(working) : ~working[i].Delay.nat /\ InGroup(working[i], late, state)}
        delivered == SelectSeq(working_clean, LAMBDA r : r.Net_State = "Delivered")
    IN [fn |-> "get_delivery_performance", rows |-> working,
        clean |-> delivered, delayed |-> Group(TRUE, "Delivered"),
        delay_delivered |-> Group(TRUE, "Delivered"),
        delay_not_delivered |-> Group(TRUE, "Not_Delivered"),
        no_delay_delivered |-> Group(FALSE, "Delivered"),
        no_delay_not_delivered |-> Group(FALSE, "Not_Delivered"),
        index |-> [delay_delivered |-> Labels(TRUE, "Delivered"),
                   delay_not_delivered |-> Labels(TRUE, "Not_Delivered"),
                   no_delay_delivered |-> Labels(FALSE, "Delivered"),
                   no_delay_not_delivered |-> Labels(FALSE, "Not_Delivered")],
        total_orders |-> Len(working_clean),
        on_time_rate |-> IF Len(delivered) > 0
                         THEN <<Percent(Len(Group(FALSE, "Delivered")), Len(delivered))>>
                         ELSE <<Rat(0, 1)>>]

DeliveryStatuses == {"Delivered", "Not_Delivered", "All"}

\* OrdersAnalyzer.get_delayed_orders_by_stage(delivery_status)
GetDelayedOrdersByStageResult(orders_data, delivery_status) ==
    LET orders_clean == AnalyzerOrders(orders_data)
        considered == IF delivery_status = "All" THEN orders_clean
                      ELSE SelectSeq(orders_clean, LAMBDA r : r.Net_State = delivery_status)
    IN [fn |-> "get_delayed_orders_by_stage", rows |-> orders_clean,
        delivery_status |-> delivery_status, clean |-> considered,
        delayed |-> SelectSeq(considered, LAMBDA r : TdNegative(r.Delay)),
        on_time_rate |-> <<>>]

GetDelayAnalysis ==
    /\ derived' = GetDelayAnalysisResult(orders)
    /\ UNCHANGED <<orders, notOrdVars>>

GetDeliveryPerformanceAnalysis ==
    /\ derived' = GetDeliveryPerformanceAnalysisResult(orders)
    /\ UNCHANGED <<orders, notOrdVars>>

\* pages/1: the delay part of compute_main_insights
ComputeMainInsights ==
    /\ derived' = ComputeMainInsightsDelay(orders)
    /\ UNCHANGED <<orders, notOrdVars>>

GetDeliveryPerformance ==
    /\ derived' = GetDeliveryPerformanceResult(orders)
    /\ UNCHANGED <<orders, notOrdVars>>

GetDelayedOrdersByStage ==
    /\ \E delivery_status \in DeliveryStatuses :
          derived' = GetDelayedOrdersByStageResult(orders, delivery_status)
    /\ UNCHANGED <<orders, notOrdVars>>

-----------------------------------------------------------------------------
(* Binning of delays: the severity classes of pages/7 and the heatmap of    *)
(* analysis/orders_analysis.py.  The orders tables here have delays on both *)
(* sides of every bin edge and a percentage column.                         *)

\* -inf as a bin edge
NegInf == <<-1, 0>>

\* pd.cut(x, bins, right=True, include_lowest): the position of the interval
\* (bins[i], bins[i+1]] that holds x, 0 (NaN) when no interval holds it;
\* include_lowest closes the first interval on the left
Cut(x, bins, include_lowest) ==
    LET Above(i) == \/ bins[i] = NegInf
                    \/ RatLess(bins[i], x)
                    \/ (include_lowest /\ i = 1 /\ x = bins[1])
        hits == {i \in 1..(Len(bins) - 1) : Above(i) /\ RatLeq(x, bins[i + 1])}
    IN IF hits = {} THEN 0 ELSE CHOOSE i \in hits : TRUE

\* a slip SeverityBins could have: the lowest edge of the heatmap's ranges
SeverityBinsFromThirty ==
    <<Rat(-30, 1), Rat(-20, 1), Rat(-10, 1), Rat(-5, 1), Rat(-2, 1), Rat(0, 1)>>

\* pages/7: bins=[-float('inf'), -20, -10, -5, -2, 0]
SeverityBins ==
    <<NegInf, Rat(-20, 1), Rat(-10, 1), Rat(-5, 1), Rat(-2, 1), Rat(0, 1)>>

SeverityLabels ==
    <<"Very Severe (>20 days)", "Severe (10-20 days)", "Moderate (5-10 days)",
      "Mild (2-5 days)", "Minor (<2 days)">>

\* pages/7: the delayed orders get_delay_analysis returns, with the columns
\* the charts read
PageDelayedOrders(orders_data) ==
    LET Row(i) == LET d == DeriveRow(orders_data, orders_data.rows[i])
                  IN [Net_State |-> d.Net_State, Delay |-> d.Delay,
                      delay_days |-> DelayDaysOf(d.Delay),
                      Site_Real_PCT |-> orders_data.rows[i].Site_Real_PCT]
        delay_data == [i \in 1..Len(orders_data.rows) |-> Row(i)]
    IN SelectSeq(delay_data, LAMBDA r : TdNegative(r.Delay))

\* pages/7: create_delay_severity_chart; severity_counts is value_counts()
\* of the categorical column in the order of the categories
CreateDelaySeverityChartResult(delayed_orders) ==
    IF Len(delayed_orders) = 0
    THEN [fn |-> "create_delay_severity_chart", rows |-> delayed_orders,
          placeholder |-> TRUE, severity_counts |-> <<>>]
    ELSE [fn |-> "create_delay_severity_chart", rows |-> delayed_orders,
          placeholder |-> FALSE,
          severity_counts |->
              [c \in 1..Len(SeverityLabels) |->
                  Len(SelectSeq(delayed_orders,
                                LAMBDA r : Cut(r.delay_days, SeverityBins, FALSE) = c))]]

\* orders_analysis.py: the default delay_day_ranges as bin edges
HeatmapDelayBins ==
    <<Rat(-30, 1), Rat(-20, 1), Rat(-10, 1), Rat(-5, 1), Rat(-2, 1), Rat(0, 1)>>

\* np.linspace(0, 100, 11)
HeatmapPctBins == [i \in 1..11 |-> Rat(10 * (i - 1), 1)]

\* the keys of one axis of pd.crosstab(..., dropna=False): every bin position
\* of the categorical column, highest first or lowest first, and after them
\* the NaN key (0) when a cell of the column is NaN
BinKeys(n, descending, with_nan) ==
    [i \in 1..n |-> IF descending THEN n + 1 - i ELSE i]
        \o (IF with_nan THEN <<0>> ELSE <<>>)

\* create_delay_heatmap with the default ranges: pd.crosstab(delay_bin, pct_bin,
\* dropna=False).fillna(0), then sort_index(ascending=False), which leaves the
\* NaN row last.  What becomes of a row whose bin is NaN depends on the pandas
\* release, which nothing in the repository fixes: it is counted in no cell,
\* or (nan_group_kept) under the NaN key of its axis.
CreateDelayHeatmapResult(delayed_orders, nan_group_kept) ==
    IF Len(delayed_orders) = 0
    THEN [fn |-> "create_delay_heatmap", rows |-> delayed_orders,
          placeholder |-> TRUE, y |-> <<>>, x |-> <<>>, z |-> <<>>]
    ELSE
      LET n == Len(delayed_orders)
          delay_bin == [i \in 1..n |-> Cut(delayed_orders[i].delay_days, HeatmapDelayBins, TRUE)]
          pct_bin == [i \in 1..n |-> Cut(delayed_orders[i].Site_Real_PCT, HeatmapPctBins, TRUE)]
          y == BinKeys(Len(HeatmapDelayBins) - 1, TRUE,
                       nan_group_kept /\ \E i \in 1..n : delay_bin[i] = 0)
          x == BinKeys(Len(HeatmapPctBins) - 1, FALSE,
                       nan_group_kept /\ \E i \in 1..n : pct_bin[i] = 0)
      IN [fn |-> "create_delay_heatmap", rows |-> delayed_orders,
          placeholder |-> FALSE, y |-> y, x |-> x,
          z |-> [a \in 1..Len(y) |-> [b \in 1..Len(x) |->
                    Cardinality({i \in 1..n : delay_bin[i] = y[a] /\ pct_bin[i] = x[b]})]]]

\* pages/7, main: the severity chart of the delayed orders of the analysis
CreateDelaySeverityChart ==
    /\ derived' = LET delayed_orders == PageDelayedOrders(orders)
                  IN IF Len(delayed_orders) > 0
                     THEN CreateDelaySeverityChartResult(delayed_orders)
                     ELSE [fn |-> "no severity chart", rows |-> delayed_orders]
    /\ UNCHANGED <<orders, notOrdVars>>

\* pages/7, main: the heatmap section; nothing is drawn when no delayed order
\* is left after the filter on the delivery status
RenderDelayHeatmap ==
    /\ \E delivery_status \in DeliveryStatuses, nan_group_kept \in BOOLEAN :
          LET delayed_orders == PageDelayedOrders(orders)
              filtered_delayed ==
                  IF delivery_status = "All" THEN delayed_orders
                  ELSE SelectSeq(delayed_orders, LAMBDA r : r.Net_State = delivery_status)
          IN derived' = IF Len(delayed_orders) > 0 /\ Len(filtered_delayed) > 0
                        THEN CreateDelayHeatmapResult(filtered_delayed, nan_group_kept)
                        ELSE [fn |-> "no heatmap", rows |-> filtered_delayed]
    /\ UNCHANGED <<orders, notOrdVars>>

\* The orders tables of this part: datetime64 columns, the estimated date on
\* day 0.  Delivered orders have delays in days on both sides of every edge
\* of the SLA tiers, the severity classes and the heatmap ranges, or no
\* delivered date; orders not delivered have three of these.  Site_Real_PCT
\* is the percentage get_delay_analysis derived: 0, or for a few delivered
\* orders a value on an edge of the percentage bins or outside them.
WideOrdersFrames ==
    LET DelaySamples == {1, 0, -1, -2, -3, -5, -7, -10, -20, -30, -31}
        Estimated == [kind |-> "date", t |-> 0]
        Delivered(delay) == [kind |-> "date", t |-> 0 - delay]
        Missing == [kind |-> "nan", t |-> 0]
        Row(status, delivered, pct) ==
            [order_status |-> status, order_estimated_delivery_date |-> Estimated,
             order_delivered_customer_date |-> delivered, Site_Real_PCT |-> pct]
        WideOrderRows ==
            {Row("delivered", Delivered(d), Rat(0, 1)) : d \in DelaySamples}
              \cup {Row("shipped", Delivered(d), Rat(0, 1)) : d \in {-1, -31}}
              \cup {Row(s, Missing, Rat(0, 1)) : s \in OrderStatuses}
              \cup {Row("delivered", Delivered(-1), Rat(p, 1)) : p \in {-1, 10, 100, 101}}
              \cup {Row("delivered", Delivered(-31), Rat(10, 1))}
    IN [date_dtype : {"datetime64"}, has_order_status : {TRUE},
        rows : SeqsUpTo(WideOrderRows, MaxWideOrders)]

-----------------------------------------------------------------------------
(* The revenue tables: analysis/revenue_analysis.py and pages/4.           *)

NaN == "NaN"

OrderIds == {"o1", "o2"}
ItemProductIds == {"p1", "p2"}      \* p2 has no row in products
CatalogProductIds == {"p1"}
SellerIds == {"s1", "s2"}
Categories == {"c1", "c2"}
Prices == {1, 2}
Freights == {1}

\* groupby sorts its keys; the orders below are the sorted orders of the keys
CategoryOrder == <<"Others", "c1", "c2">>
SellerOrder == <<"s1", "s2">>
OrderIdOrder == <<"o1", "o2">>

ItemRows ==
    [order_id : OrderIds, product_id : ItemProductIds,
     seller_id : SellerIds \cup {NaN}, price : Prices, freight_value : Freights]

ProductRows ==
    [product_id : CatalogProductIds, product_category_name : Categories \cup {NaN}]

\* the product rows that join one item (all of them, in table order)
Matches(item, prods) == SelectSeq(prods, LAMBDA p : p.product_id = item.product_id)

JoinRow(item, category) ==
    [order_id |-> item.order_id, product_id |-> item.product_id,
     seller_id |-> item.seller_id, price |-> item.price,
     freight_value |-> item.freight_value, product_category_name |-> category]

\* pd.merge(order_items, products, on='product_id', how='left')
RECURSIVE MergeLeft(_, _)
MergeLeft(items, prods) ==
    IF items = <<>> THEN <<>>
    ELSE LET m == Matches(Head(items), prods)
             joined == IF m = <<>>
                       THEN <<JoinRow(Head(items), NaN)>>
                       ELSE [j \in 1..Len(m) |->
                                JoinRow(Head(items), m[j].product_category_name)]
         IN joined \o MergeLeft(Tail(items), prods)

\* a slip FillCategory could have: the missing names left missing
FillCategoryKeepsNaN(c) == c

\* .fillna('Others') on product_category_name
FillCategory(c) == IF c = NaN THEN "Others" ELSE c

\* the Total column: price + freight_value
TotalOf(r) == r.price + r.freight_value

\* RevenueAnalyzer.prepare_data
PrepareData(items, prods) ==
    LET merged == MergeLeft(items, prods)
    IN [i \in 1..Len(merged) |->
           [order_id |-> merged[i].order_id, product_id |-> merged[i].product_id,
            seller_id |-> merged[i].seller_id, price |-> merged[i].price,
            freight_value |-> merged[i].freight_value,
            product_category_name |-> FillCategory(merged[i].product_category_name),
            Total |-> TotalOf(merged[i])]]

\* the keys groupby keeps: those present in the column; a NaN key is dropped
\* (dropna=True is groupby's default)
GroupKeys(detailed, key_column, key_order) ==
    SelectSeq(key_order, LAMBDA k : \E i \in 1..Len(detailed) : detailed[i][key_column] = k)

\* .agg(Total=(metric_column, 'sum')) for one key
GroupSum(detailed, key_column, k, metric_column) ==
    SumSeq([i \in 1..Len(detailed) |->
               IF detailed[i][key_column] = k THEN detailed[i][metric_column] ELSE 0])

\* .sort_values('Total', ascending=False): ties keep their order
RECURSIVE InsertByTotal(_, _)
InsertByTotal(x, sorted) ==
    IF sorted = <<>> THEN <<x>>
    ELSE IF Head(sorted).Total >= x.Total
         THEN <<Head(sorted)>> \o InsertByTotal(x, Tail(sorted))
         ELSE <<x>> \o sorted

RECURSIVE SortByTotalDesc(_)
SortByTotalDesc(s) ==
    IF s = <<>> THEN <<>>
    ELSE InsertByTotal(s[Len(s)], SortByTotalDesc(SubSeq(s, 1, Len(s) - 1)))

\* RevenueAnalyzer._analyze_by_category
AnalyzeByCategory(detailed, metric_column) ==
    LET keys == GroupKeys(detailed, "product_category_name", CategoryOrder)
    IN SortByTotalDesc(
           [j \in 1..Len(keys) |->
               [product_category_name |-> keys[j],
                Total |-> GroupSum(detailed, "product_category_name", keys[j],
                                   metric_column)]])

\* RevenueAnalyzer._analyze_by_vendor
AnalyzeByVendor(detailed, metric_column) ==
    LET keys == GroupKeys(detailed, "seller_id", SellerOrder)
    IN SortByTotalDesc(
           [j \in 1..Len(keys) |->
               [seller_id |-> keys[j],
                Total |-> GroupSum(detailed, "seller_id", keys[j], metric_column)]])

TotalsOf(table) == [i \in 1..Len(table) |-> table[i].Total]

\* RevenueAnalyzer.run_comprehensive_analysis, from a fresh analyzer
RunComprehensiveAnalysisResult(items, prods) ==
    LET detailed == PrepareData(items, prods)
        total_revenue == SumSeq(TotalsOf(detailed))
        order_keys == GroupKeys(detailed, "order_id", OrderIdOrder)
        order_totals == [j \in 1..Len(order_keys) |->
                            GroupSum(detailed, "order_id", order_keys[j], "Total")]
        total_orders == Len(order_totals)
        total_products == Len(detailed)
        category_revenue_all == AnalyzeByCategory(detailed, "Total")
        vendor_revenue_all == AnalyzeByVendor(detailed, "Total")
    IN IF total_orders = 0
       THEN \* total_products / total_orders with two Python ints
            [fn |-> "run_comprehensive_analysis", raised |-> "ZeroDivisionError"]
       ELSE [fn |-> "run_comprehensive_analysis", raised |-> "",
             total_revenue |-> total_revenue,
             average_order_value |-> <<SumSeq(order_totals), total_orders>>,
             total_orders |-> total_orders,
             total_products |-> total_products,
             avg_items_per_order |-> <<total_products, total_orders>>,
             category_revenue_all |-> category_revenue_all,
             category_revenue_freight |-> AnalyzeByCategory(detailed, "freight_value"),
             category_revenue_price |-> AnalyzeByCategory(detailed, "price"),
             vendor_revenue_all |-> vendor_revenue_all,
             vendor_revenue_freight |-> AnalyzeByVendor(detailed, "freight_value"),
             vendor_revenue_price |-> AnalyzeByVendor(detailed, "price"),
             top_category |-> IF Len(category_revenue_all) > 0
                              THEN <<category_revenue_all[1]>> ELSE <<>>,
             top_vendor |-> IF Len(vendor_revenue_all) > 0
                            THEN <<vendor_revenue_all[1]>> ELSE <<>>,
             order_items_detailed |-> detailed]

RunComprehensiveAnalysis ==
    /\ revenue' = RunComprehensiveAnalysisResult(order_items, products)
    /\ UNCHANGED <<order_items, products, notRevVars>>

\* pd.cut(revenue_pct, bins=[0, 0.1, 1, 5, 100]) with revenue_pct = Total /
\* total_revenue * 100: right-closed bins, nothing at or below 0
SegmentOf(total, total_revenue) ==
    IF total_revenue <= 0 \/ total <= 0 THEN NaN
    ELSE IF total * 1000 <= total_revenue THEN "Micro (<0.1%)"
    ELSE IF total * 100 <= total_revenue THEN "Small (0.1-1%)"
    ELSE IF total * 20 <= total_revenue THEN "Medium (1-5%)"
    ELSE "Large (>5%)"

\* pages/4: get_vendor_analysis
GetVendorAnalysisResult(items, prods) ==
    LET detailed == PrepareData(items, prods)
        vendor_all == AnalyzeByVendor(detailed, "Total")
        total_revenue == SumSeq(TotalsOf(vendor_all))
    IN [fn |-> "get_vendor_analysis", raised |-> "",
        vendor_all |-> [i \in 1..Len(vendor_all) |->
                           [seller_id |-> vendor_all[i].seller_id,
                            Total |-> vendor_all[i].Total,
                            revenue_pct |-> IF total_revenue > 0
                                            THEN Rat(vendor_all[i].Total * 100, total_revenue)
                                            ELSE <<0, 1>>,
                            segment |-> SegmentOf(vendor_all[i].Total, total_revenue)]],
        vendor_price |-> AnalyzeByVendor(detailed, "price"),
        vendor_freight |-> AnalyzeByVendor(detailed, "freight_value"),
        total_vendors |-> Len(vendor_all),
        total_revenue |-> total_revenue,
        top_vendor |-> IF Len(vendor_all) > 0 THEN <<vendor_all[1]>> ELSE <<>>]

GetVendorAnalysis ==
    /\ revenue' = GetVendorAnalysisResult(order_items, products)
    /\ UNCHANGED <<order_items, products, notRevVars>>

\* gini_coefficient = (perfect_area - lorenz_area) / perfect_area if perfect_area > 0 else 0
GiniFromAreas(perfect_area, lorenz_area) ==
    IF RatLess(<<0, 1>>, perfect_area)
    THEN RatDiv(RatSub(perfect_area, lorenz_area), perfect_area)
    ELSE <<0, 1>>

\* pages/4: the Gini coefficient of create_vendor_concentration_chart
VendorGini(vendor_all) ==
    LET sorted_vendors == SortByTotalDesc(vendor_all)
        totals == TotalsOf(sorted_vendors)
        n == Len(sorted_vendors)
        \* cumulative_pct = cumsum / sum * 100, over the denominator sum
        cumulative == [i \in 1..n |-> 100 * Cumsum(totals)[i]]
        lorenz_area == IF SumSeq(totals) = 0 /\ n >= 2 THEN RatNaN
                       ELSE Trapz(cumulative, SumSeq(totals))
        perfect_area == Trapz(LinspaceNumerators(n), LinspaceDenominator(n))
    IN GiniFromAreas(perfect_area, lorenz_area)

\* pages/4: main draws the chart from the vendor_all of get_vendor_analysis
CreateVendorConcentrationChart ==
    /\ LET vendor_all == GetVendorAnalysisResult(order_items, products).vendor_all
       IN revenue' = [fn |-> "create_vendor_concentration_chart", raised |-> "",
                      vendor_all |-> vendor_all,
                      gini_coefficient |-> VendorGini(vendor_all)]
    /\ UNCHANGED <<order_items, products, notRevVars>>

NoCall == [fn |-> "none", raised |-> ""]

-----------------------------------------------------------------------------
(* Regional concentration: pages/8.                                        *)

\* customer_state values, in the sorted order groupby gives them
StateOrder == <<"BA", "MG", "RJ", "SP">>

\* the state_stats of get_geographic_analysis: one row per state with orders
StateStatsTables ==
    UNION {{[i \in 1..n |-> [customer_state |-> StateOrder[i], total_orders |-> c[i]]]
              : c \in [1..n -> 1..MaxStateOrders]} : n \in 0..MaxStates}

\* national_share = total_orders / total_orders_national * 100, as numerators
\* over the common denominator total_orders_national
NationalShareNumerators(stats) == [i \in 1..Len(stats) |-> 100 * stats[i].total_orders]
TotalOrdersNational(stats) == SumSeq([i \in 1..Len(stats) |-> stats[i].total_orders])

\* .sort_values(ascending=False) of a sequence of numbers
RECURSIVE InsertDesc(_, _)
InsertDesc(x, sorted) ==
    IF sorted = <<>> THEN <<x>>
    ELSE IF Head(sorted) >= x THEN <<Head(sorted)>> \o InsertDesc(x, Tail(sorted))
         ELSE <<x>> \o sorted

RECURSIVE SortDesc(_)
SortDesc(s) ==
    IF s = <<>> THEN <<>> ELSE InsertDesc(s[Len(s)], SortDesc(SubSeq(s, 1, Len(s) - 1)))

\* the Gini coefficient of create_regional_concentration_chart
RegionalGini(stats) ==
    LET sorted_shares == SortDesc(NationalShareNumerators(stats))
        cumulative_pct == Cumsum(sorted_shares)
        n == Len(sorted_shares)
        lorenz_area == Trapz(cumulative_pct, TotalOrdersNational(stats))
        perfect_area == Trapz(LinspaceNumerators(n), LinspaceDenominator(n))
    IN GiniFromAreas(perfect_area, lorenz_area)

\* create_regional_concentration_chart: (fig, gini_coefficient)
RegionalChart(stats) ==
    IF Len(stats) < 2
    THEN [fn |-> "create_regional_concentration_chart", placeholder |-> TRUE,
          gini_coefficient |-> <<0, 1>>, previous |-> <<>>]
    ELSE [fn |-> "create_regional_concentration_chart", placeholder |-> FALSE,
          gini_coefficient |-> RegionalGini(stats), previous |-> <<>>]

CreateRegionalConcentrationChart ==
    /\ regional' = RegionalChart(state_stats)
    /\ UNCHANGED <<state_stats, notGiniVars>>

\* the index of the state with the most orders (the first of them)
TopState(stats) ==
    CHOOSE i \in 1..Len(stats) :
        /\ \A j \in 1..Len(stats) : stats[j].total_orders <= stats[i].total_orders
        /\ \A j \in 1..(i - 1) : stats[j].total_orders < stats[i].total_orders

\* The chart is drawn again for data in which one order has moved from state i
\* to the state with the most orders (every state keeps an order, so the number
\* of states stays the same); the coefficient shown before is remembered.
ChartAfterConcentration(i) ==
    /\ regional.fn = "create_regional_concentration_chart"
    /\ ~regional.placeholder
    /\ i # TopState(state_stats)
    /\ state_stats[i].total_orders > 1
    /\ LET top == TopState(state_stats)
           moved == [state_stats EXCEPT ![i].total_orders = @ - 1,
                                        ![top].total_orders = @ + 1]
       IN /\ state_stats' = moved
          /\ regional' = [RegionalChart(moved) EXCEPT
                              !.previous = <<regional.gini_coefficient>>]
    /\ UNCHANGED notGiniVars

NoChart == [fn |-> "none", placeholder |-> FALSE, gini_coefficient |-> <<0, 1>>,
            previous |-> <<>>]

-----------------------------------------------------------------------------
(* Column presence: which columns a function reads, in the order it reads   *)
(* them, and what it does when one is absent.  Only the column names and    *)
(* the number of rows of the input matter here.                             *)

AllColumns ==
    {"order_id", "customer_state", "order_purchase_timestamp", "order_approved_at",
     "order_delivered_carrier_date", "order_delivered_customer_date",
     "Net_State", "Delay", "delay_days", "Site_Real_PCT"}

Frames ==
    {[columns |-> AllColumns \ missing, n_rows |-> n] :
        missing \in {m \in SUBSET AllColumns : Cardinality(m) <= MaxMissing},
        n \in 0..MaxFrameRows}

\* df[name] on a DataFrame: the first of the names read that is absent raises
FirstAbsent(names, columns) ==
    LET absent == SelectSeq(names, LAMBDA c : c \notin columns)
    IN IF absent = <<>> THEN "" ELSE "KeyError"

\* analysis/orders_analysis.py: create_delay_heatmap with the default pct_col
CreateDelayHeatmapOutcome(f) ==
    IF f.n_rows = 0 \/ f.columns = {} THEN "placeholder"
    ELSE IF "delay_days" \notin f.columns /\ "Delay" \notin f.columns THEN "ValueError"
    ELSE IF "Site_Real_PCT" \notin f.columns THEN "KeyError"
    ELSE "result"

\* pages/8: get_geographic_analysis
GetGeographicAnalysisOutcome(f) ==
    IF "customer_state" \notin f.columns THEN "empty"
    ELSE IF FirstAbsent(<<"order_id", "Net_State", "Delay">>, f.columns) # ""
         THEN FirstAbsent(<<"order_id", "Net_State", "Delay">>, f.columns)
    ELSE "result"

\* pages/6: get_timeline_analysis
GetTimelineAnalysisOutcome(f) ==
    LET read == <<"order_approved_at", "order_purchase_timestamp",
                  "order_delivered_carrier_date", "order_delivered_customer_date",
                  "Net_State">>
    IN IF FirstAbsent(read, f.columns) # "" THEN FirstAbsent(read, f.columns)
       ELSE "result"

\* the columns each function reads unconditionally or needs one of
NeededPresent(fn, columns) ==
    CASE fn = "create_delay_heatmap" ->
            /\ ("delay_days" \in columns \/ "Delay" \in columns)
            /\ "Site_Real_PCT" \in columns
      [] fn = "get_geographic_analysis" ->
            {"customer_state", "order_id", "Net_State", "Delay"} \subseteq columns
      [] fn = "get_timeline_analysis" ->
            {"order_approved_at", "order_purchase_timestamp",
             "order_delivered_carrier_date", "order_delivered_customer_date",
             "Net_State"} \subseteq columns
      [] OTHER -> TRUE

\* create_delay_heatmap assigns its columns to the frame it is given:
\* delay_days when it derives it from Delay, then delay_bin, then pct_bin once
\* the percentage column has been read
CreateDelayHeatmapColumns(f) ==
    IF CreateDelayHeatmapOutcome(f) \in {"placeholder", "ValueError"} THEN f.columns
    ELSE f.columns \cup {"delay_days", "delay_bin"}
            \cup (IF CreateDelayHeatmapOutcome(f) = "result" THEN {"pct_bin"} ELSE {})

CreateDelayHeatmap ==
    /\ call' = [fn |-> "create_delay_heatmap", outcome |-> CreateDelayHeatmapOutcome(df)]
    /\ df' = [df EXCEPT !.columns = CreateDelayHeatmapColumns(df)]
    /\ UNCHANGED notColVars

GetGeographicAnalysis ==
    /\ call' = [fn |-> "get_geographic_analysis",
                outcome |-> GetGeographicAnalysisOutcome(df)]
    /\ UNCHANGED <<df, notColVars>>

GetTimelineAnalysis ==
    /\ call' = [fn |-> "get_timeline_analysis",
                outcome |-> GetTimelineAnalysisOutcome(df)]
    /\ UNCHANGED <<df, notColVars>>

NotCalled == [fn |-> "none", outcome |-> ""]

-----------------------------------------------------------------------------
(* OrdersAnalyzer construction: analysis/orders_analysis.py.                *)
(* A Delay column is its dtype and its cells.  A cell is [kind, v]:         *)
(*   "td"   a timedelta of v days        "nat"  NaT                         *)
(*   "str"  a string that parses to v days, e.g. "-3 days"                  *)
(*   "bad"  a string that is no timedelta  "nan"  NaN in an object column   *)
(*   "int"  the integer v                "bool" a boolean                   *)
(*   "dt"   a datetime                   "ns"   a timedelta of v nanoseconds*)

Cell(kind, v) == [kind |-> kind, v |-> v]
DelayValues == {-1, 0, 1}

CellsOfDtype(dtype) ==
    CASE dtype = "timedelta64" -> {Cell("td", v) : v \in DelayValues} \cup {Cell("nat", 0)}
      [] dtype = "object" ->
            {Cell("str", v) : v \in DelayValues} \cup {Cell("bad", 0), Cell("nan", 0)}
      [] dtype = "int64" -> {Cell("int", v) : v \in DelayValues}
      [] dtype = "bool" -> {Cell("bool", 0), Cell("bool", 1)}
      [] dtype = "datetime64" -> {Cell("dt", 0), Cell("nat", 0)}
      [] OTHER -> {}

DelayDtypes == {"timedelta64", "object", "int64", "bool", "datetime64"}

\* 'Delay' may be absent from the orders columns
DelayColumns ==
    {[present |-> FALSE, dtype |-> "", cells |-> <<>>]}
        \cup UNION {[present : {TRUE}, dtype : {d},
                     cells : SeqsUpTo(CellsOfDtype(d), MaxDelayCells)] : d \in DelayDtypes}

Attempt(error, cells) == [error |-> error, cells |-> cells]

\* pd.to_timedelta(column): strings are parsed and an unparseable one raises
\* ValueError; integers are nanoseconds; bool and datetime64 columns raise
\* TypeError
ToTimedelta(col) ==
    CASE col.dtype = "timedelta64" -> Attempt("", col.cells)
      [] col.dtype = "object" ->
            IF \E i \in 1..Len(col.cells) : col.cells[i].kind = "bad"
            THEN Attempt("ValueError", <<>>)
            ELSE Attempt("", [i \in 1..Len(col.cells) |->
                                 IF col.cells[i].kind = "str"
                                 THEN Cell("td", col.cells[i].v) ELSE Cell("nat", 0)])
      [] col.dtype = "int64" ->
            Attempt("", [i \in 1..Len(col.cells) |-> Cell("ns", col.cells[i].v)])
      [] OTHER -> Attempt("TypeError", <<>>)

\* pd.to_timedelta(column, unit='D'): integers are days; bool raises TypeError
ToTimedeltaDays(col) ==
    IF col.dtype = "int64"
    THEN Attempt("", [i \in 1..Len(col.cells) |-> Cell("td", col.cells[i].v)])
    ELSE Attempt("TypeError", <<>>)

\* column.astype(str): every cell becomes its string form
AsTypeStr(col) ==
    [present |-> TRUE, dtype |-> "object",
     cells |-> [i \in 1..Len(col.cells) |->
                   CASE col.cells[i].kind \in {"str", "td"} -> Cell("str", col.cells[i].v)
                     [] col.cells[i].kind \in {"nan", "nat"} -> Cell("nan", 0)
                     [] OTHER -> Cell("bad", 0)]]

\* pd.api.types.is_numeric_dtype: bool counts as numeric
IsNumericDtype(dtype) == dtype \in {"int64", "bool"}

AllNaT(n) == [i \in 1..n |-> Cell("nat", 0)]

Converted(raised, attempts, warned, cells) ==
    [raised |-> raised, attempts |-> attempts, warned |-> warned, cells |-> cells]

\* a slip ConvertDelay could have: no fallback, the first failure propagates
ConvertDelayNoFallback(col) ==
    IF col.dtype = "timedelta64" THEN Converted("", <<>>, FALSE, col.cells)
    ELSE LET first == ToTimedelta(col)
         IN Converted(first.error, <<"to_timedelta">>, FALSE, first.cells)

\* one half of _convert_delay_to_timedelta: the try/except ladder on one
\* frame.  The outer handler is except (ValueError, TypeError): an exception
\* of the plain conversion outside these classes leaves the constructor; the inner handler (except Exception)
\* catches whatever the alternate conversion raises.
ConvertDelay(col) ==
    IF col.dtype = "timedelta64" THEN Converted("", <<>>, FALSE, col.cells)
    ELSE LET first == ToTimedelta(col)
         IN IF first.error = ""
            THEN Converted("", <<"to_timedelta">>, FALSE, first.cells)
            ELSE IF first.error \notin {"ValueError", "TypeError"}
            THEN Converted(first.error, <<"to_timedelta">>, FALSE, <<>>)
            ELSE LET numeric == IsNumericDtype(col.dtype)
                     second == IF numeric THEN ToTimedeltaDays(col)
                               ELSE ToTimedelta(AsTypeStr(col))
                     tried == <<"to_timedelta", IF numeric THEN "unit_D" ELSE "astype_str">>
                 IN IF second.error = ""
                    THEN Converted("", tried, FALSE, second.cells)
                    ELSE \* print the warning, Delay = pd.NaT
                         Converted("", tried, TRUE, AllNaT(Len(col.cells)))

\* OrdersAnalyzer.__init__: both copies of the orders are converted
OrdersAnalyzerInit(col) ==
    IF ~col.present
    THEN [built |-> TRUE, raised |-> "", has_delay |-> FALSE,
          orders |-> Converted("", <<>>, FALSE, <<>>),
          orders_clean |-> Converted("", <<>>, FALSE, <<>>)]
    ELSE LET a == ConvertDelay(col)
             b == IF a.raised = "" THEN ConvertDelay(col)
                  ELSE Converted("", <<>>, FALSE, col.cells)
         IN [built |-> a.raised = "" /\ b.raised = "",
             raised |-> IF a.raised # "" THEN a.raised ELSE b.raised,
             has_delay |-> TRUE, orders |-> a, orders_clean |-> b]

NewOrdersAnalyzer ==
    /\ analyzer' = OrdersAnalyzerInit(delay_column)
    /\ UNCHANGED <<delay_column, notAnaVars>>

NoAnalyzer ==
    [built |-> FALSE, raised |-> "", has_delay |-> FALSE,
     orders |-> Converted("", <<>>, FALSE, <<>>),
     orders_clean |-> Converted("", <<>>, FALSE, <<>>)]

-----------------------------------------------------------------------------
(* The geographic analysis: pages/8.  get_geographic_analysis reads the      *)
(* customer_state, order_id, Net_State and Delay columns of the table it is *)
(* given; order_id is the key of the orders table, one row per order.       *)

\* the Delay column is a timedelta column, or the object column of strings
\* that pd.read_csv gives
GeoOrdersFrames ==
    LET GeoOrderRows(dtype) ==
            [customer_state : {"RJ", "SP"}, Net_State : {"Delivered", "Not_Delivered"},
             Delay : CellsOfDtype(dtype)]
    IN UNION {[delay_dtype : {dtype}, rows : SeqsUpTo(GeoOrderRows(dtype), MaxOrders)]
                : dtype \in {"timedelta64", "object"}}

\* the state_stats of get_geographic_analysis: groupby('customer_state') with
\* total_orders = nunique(order_id), delivered_orders = (Net_State ==
\* 'Delivered').sum() and delayed_orders = (Delay < pd.Timedelta(0)).sum() if
\* the dtype of Delay is not object else 0
GetGeographicAnalysisResult(geo_data) ==
    LET InState(s) == SelectSeq(geo_data.rows, LAMBDA r : r.customer_state = s)
        states == SelectSeq(StateOrder, LAMBDA s : InState(s) # <<>>)
        DelayedOrders(x) ==
            IF geo_data.delay_dtype # "object"
            THEN Len(SelectSeq(x, LAMBDA r : r.Delay.kind = "td" /\ r.Delay.v < 0))
            ELSE 0
    IN [fn |-> "get_geographic_analysis",
        state_stats |->
            [j \in 1..Len(states) |->
                [customer_state |-> states[j],
                 total_orders |-> Len(InState(states[j])),
                 delivered_orders |->
                     Len(SelectSeq(InState(states[j]),
                                   LAMBDA r : r.Net_State = "Delivered")),
                 delayed_orders |-> DelayedOrders(InState(states[j]))]]]

\* pages/8, main: the analysis of the orders table of the session
GetGeographicAnalysisOfOrders ==
    /\ geo' = GetGeographicAnalysisResult(geo_orders)
    /\ UNCHANGED <<geo_orders, notGeoVars>>

NoGeo == [fn |-> "none", state_stats |-> <<>>]

-----------------------------------------------------------------------------
(* The Streamlit session: theme.py (the home page and the three loaders)    *)
(* and the report pages that keep their analysis in st.session_state.       *)
(* None, and a key that is not in st.session_state, is the empty tuple; a   *)
(* value v that is there is <<v>>.                                          *)

None == <<>>
Some(v) == <<v>>

\* @st.cache_data(ttl=3600)
CacheTtl == 3600

TickSeconds == CacheTtl \div TicksPerTtl

\* a cache entry is served while it is younger than the ttl
Fresh(stored_at) == now < stored_at + CacheTtl

\* what pd.read_csv can return for the three files; the files are remote,
\* so two reads need not return the same table.  The order_items table is
\* kept with its column names: a column can be added to a table without rows.
RemoteOrderItems ==
    LET columns == <<"order_id", "product_id", "seller_id", "price", "freight_value">>
    IN {[columns |-> columns,
         rows |-> <<[order_id |-> "o1", product_id |-> "p1", seller_id |-> "s1",
                     price |-> 1, freight_value |-> 1]>>],
        [columns |-> columns, rows |-> <<>>]}

RemoteProducts == {<<[product_id |-> "p1", product_category_name |-> "c1"]>>}

RemoteOrders ==
    {[date_dtype |-> "object", has_order_status |-> TRUE,
      rows |-> <<[order_status |-> "delivered",
                  order_estimated_delivery_date |-> [kind |-> "date", t |-> 0],
                  order_delivered_customer_date |-> [kind |-> "date", t |-> d]]>>]
        : d \in Days}

\* the outcome of the try block of a loader: the table, or None on an exception
Fetched(tables) == {Some(t) : t \in tables} \cup {None}

\* a call of a cached loader: the entry it leaves in the cache.  The body
\* runs, and its return value (None included) is stored, only on a miss.
LoaderHit(entry) == entry # None /\ Fresh(entry[1].stored_at)

LoadThroughCache(entry, fetched) ==
    IF LoaderHit(entry)
    THEN entry
    ELSE Some([value |-> fetched, stored_at |-> now])

\* the number of times a function body has run in the session, counted up to
\* MaxBodyRuns
CountRun(n) == IF n < MaxBodyRuns THEN n + 1 ELSE n

\* initialize_session_state; the analysis keys are set by the pages
InitialSessionState ==
    [data_loaded |-> FALSE, order_items |-> None, products |-> None, orders |-> None,
     delay_analysis |-> None, delivery_performance |-> None,
     revenue_analysis |-> None]

\* what a script run shows: the page, how the run ended (or, while the click
\* handler of the home page runs, the spinner it shows), the analysis it
\* displayed, whether a memoized function served it from its cache, and for
\* the home page whether Load All Data was clicked in this run and whether
\* every source it read was reachable
Screen(page, outcome, analysis, cache_hit) ==
    [page |-> page, outcome |-> outcome, analysis |-> analysis, cache_hit |-> cache_hit,
     clicked |-> FALSE, reachable |-> FALSE]

\* theme.py main, the Data Status section: len() of a table that is None
HomeOutcome(ss) ==
    IF ss.data_loaded /\ (ss.order_items = None \/ ss.products = None \/ ss.orders = None)
    THEN "raised: TypeError"
    ELSE "rendered"

HomeScreen(ss, clicked, reachable) ==
    [page |-> "home", outcome |-> HomeOutcome(ss), analysis |-> None, cache_hit |-> FALSE,
     clicked |-> clicked, reachable |-> reachable]

\* a run that a rerun request (a click, a page change) ended at an element
\* call, before the page had shown its content
Stopped(page) == Screen(page, "stopped: rerun", None, FALSE)

\* theme.py main, a run without a click: it renders the page, or a rerun
\* ends it
RenderHome ==
    /\ \/ shown' = HomeScreen(session_state, FALSE, FALSE)
       \/ shown' = Stopped("home")
    /\ UNCHANGED <<session_state, data_cache, analysis_cache, now, body_runs, notSessVars>>

\* theme.py main, the click handler: one `with st.spinner(...)` block.  The
\* loader is called through its cache at the present time and its result is
\* assigned to the session state; the run then shows the spinner of the next
\* block.  The blocks are separate steps: each waits for a remote read, time
\* passes between them, and a rerun (a page change, another click) ends the
\* run at the spinner.  A run keeps whether every source it read was
\* reachable.
\* A rerun that is pending while the loader runs ends the run inside the
\* block, at the next element call:
\*   at st.error, in the body after a failed read: the body has run, nothing
\*     is stored in the cache, nothing is assigned;
\*   at the end of the spinner of st.cache_data, after the body has returned
\*     and its value is stored: nothing is assigned.
LoadBlock(loader, table, fetched, reachable_before, then_showing) ==
    LET entry == LoadThroughCache(data_cache[loader], fetched)
        hit == LoaderHit(data_cache[loader])
        counted == [body_runs EXCEPT ![loader] = IF hit THEN @ ELSE CountRun(@)]
        RunEnded == [page |-> "home", outcome |-> "stopped: rerun", analysis |-> None,
                     cache_hit |-> FALSE, clicked |-> TRUE, reachable |-> FALSE]
    IN \/ /\ data_cache' = [data_cache EXCEPT ![loader] = entry]
          /\ session_state' = [session_state EXCEPT ![table] = entry[1].value]
          /\ body_runs' = counted
          /\ shown' = [page |-> "home", outcome |-> then_showing, analysis |-> None,
                       cache_hit |-> FALSE, clicked |-> TRUE,
                       reachable |-> reachable_before /\ fetched # None]
          /\ UNCHANGED <<analysis_cache, now, notSessVars>>
       \/ /\ ~hit /\ fetched = None
          /\ body_runs' = counted
          /\ shown' = RunEnded
          /\ UNCHANGED <<session_state, data_cache, analysis_cache, now, notSessVars>>
       \/ /\ ~hit
          /\ data_cache' = [data_cache EXCEPT ![loader] = entry]
          /\ body_runs' = counted
          /\ shown' = RunEnded
          /\ UNCHANGED <<session_state, analysis_cache, now, notSessVars>>

\* a click on "Load All Data": the run starts and loads order_items
LoadAllData ==
    \E fetched \in Fetched(RemoteOrderItems) :
        LoadBlock("load_order_items", "order_items", fetched, TRUE, "Loading products...")

LoadProducts ==
    /\ shown.page = "home" /\ shown.outcome = "Loading products..."
    /\ \E fetched \in Fetched(RemoteProducts) :
          LoadBlock("load_products", "products", fetched, shown.reachable,
                    "Loading orders...")

LoadOrders ==
    /\ shown.page = "home" /\ shown.outcome = "Loading orders..."
    /\ \E fetched \in Fetched(RemoteOrders) :
          LoadBlock("load_orders", "orders", fetched, shown.reachable, "loaders returned")

\* the rest of the run: data_loaded is set when the three results are not
\* None, and the page renders its status section; or a rerun ends the run
\* at st.success or st.divider, after data_loaded is set and before the
\* status section
FinishLoadAllData ==
    /\ shown.page = "home" /\ shown.outcome = "loaders returned"
    /\ LET all_loaded == /\ session_state.order_items # None
                         /\ session_state.products # None
                         /\ session_state.orders # None
           after == [session_state EXCEPT !.data_loaded = IF all_loaded THEN TRUE ELSE @]
       IN /\ session_state' = after
          /\ \/ shown' = HomeScreen(after, TRUE, shown.reachable)
             \/ shown' = [page |-> "home", outcome |-> "stopped: rerun", analysis |-> None,
                          cache_hit |-> FALSE, clicked |-> TRUE, reachable |-> FALSE]
    /\ UNCHANGED <<data_cache, analysis_cache, now, body_runs, notSessVars>>

\* the entry of a cached analysis for an argument, if it is still served
Served(fn, arg) ==
    {e \in analysis_cache : e.fn = fn /\ e.arg = arg /\ Fresh(e.stored_at)}

\* a call of a cached analysis: its value, and the cache it leaves
CallThroughCache(fn, arg, computed) ==
    IF Served(fn, arg) # {}
    THEN [value |-> (CHOOSE e \in Served(fn, arg) : TRUE).value, cache |-> analysis_cache,
          hit |-> TRUE]
    ELSE [value |-> computed,
          cache |-> {e \in analysis_cache : ~(e.fn = fn /\ e.arg = arg)}
                       \cup {[fn |-> fn, arg |-> arg, value |-> computed,
                              stored_at |-> now]},
          hit |-> FALSE]

\* main of a page that analyses the orders table: the header, initialize_page
\* and the render.  Every element call is a point where a rerun ends the run:
\*   before the analysis is called (the header, the spinners): nothing changes;
\*   at the end of the spinner of st.cache_data, after a miss has stored the
\*     value: the entry is cached, the key is not set;
\*   at the end of the page's spinner or in the render, after the assignment:
\*     the key is set, the analysis is not shown.
RenderOrdersPage(page, key, fn, computed) ==
    \/ /\ shown' = Stopped(page)
       /\ UNCHANGED <<session_state, data_cache, analysis_cache, now, body_runs,
                      notSessVars>>
    \/ /\ ~session_state.data_loaded
       /\ shown' = Screen(page, "stopped: data not loaded", None, FALSE)
       /\ UNCHANGED <<session_state, data_cache, analysis_cache, now, body_runs,
                      notSessVars>>
    \/ /\ session_state.data_loaded /\ session_state.orders = None
       /\ shown' = Screen(page, "stopped: orders not available", None, FALSE)
       /\ UNCHANGED <<session_state, data_cache, analysis_cache, now, body_runs,
                      notSessVars>>
    \/ /\ session_state.data_loaded /\ session_state.orders # None
       /\ session_state[key] # None
       /\ shown' = Screen(page, "rendered", session_state[key], FALSE)
       /\ UNCHANGED <<session_state, data_cache, analysis_cache, now, body_runs,
                      notSessVars>>
    \/ /\ session_state.data_loaded /\ session_state.orders # None
       /\ session_state[key] = None
       /\ LET called == CallThroughCache(fn, session_state.orders[1], computed)
              assigned == [session_state EXCEPT ![key] = Some(called.value)]
          IN \/ /\ analysis_cache' = called.cache
                /\ session_state' = assigned
                /\ shown' = Screen(page, "rendered", Some(called.value), called.hit)
             \/ /\ ~called.hit
                /\ analysis_cache' = called.cache
                /\ session_state' = session_state
                /\ shown' = Stopped(page)
             \/ /\ analysis_cache' = called.cache
                /\ session_state' = assigned
                /\ shown' = Stopped(page)
       /\ UNCHANGED <<data_cache, now, body_runs, notSessVars>>

\* what the analysis function of an orders page gives for the orders table now
\* in the session
OrdersAnalysisNow(fn) ==
    IF session_state.orders = None THEN None
    ELSE CASE fn = "get_delay_analysis" ->
                 GetDelayAnalysisResult(session_state.orders[1])
           [] fn = "get_delivery_performance_analysis" ->
                 GetDeliveryPerformanceAnalysisResult(session_state.orders[1])

\* pages/7
RenderDelayAnalysisPage ==
    RenderOrdersPage("Delay_Analysis", "delay_analysis", "get_delay_analysis",
                     OrdersAnalysisNow("get_delay_analysis"))

\* pages/9
RenderDeliveryPerformancePage ==
    RenderOrdersPage("Delivery_Performance", "delivery_performance",
                     "get_delivery_performance_analysis",
                     OrdersAnalysisNow("get_delivery_performance_analysis"))

\* pages/1, lines 47-48: when the table has the columns price and
\* freight_value, order_items['total_revenue'] = price + freight_value, on the
\* DataFrame that st.session_state holds; the column is added to a table
\* without rows too
AddTotalRevenue(items) ==
    LET names == {items.columns[c] : c \in 1..Len(items.columns)}
    IN IF ~({"price", "freight_value"} \subseteq names) THEN items
       ELSE [columns |-> IF "total_revenue" \in names THEN items.columns
                         ELSE Append(items.columns, "total_revenue"),
             rows |-> [i \in 1..Len(items.rows) |->
                         [order_id |-> items.rows[i].order_id,
                          product_id |-> items.rows[i].product_id,
                          seller_id |-> items.rows[i].seller_id,
                          price |-> items.rows[i].price,
                          freight_value |-> items.rows[i].freight_value,
                          total_revenue |->
                              items.rows[i].price + items.rows[i].freight_value]]]

\* pages/1: what the body of compute_main_insights returns in a session
\* state.  Each block is a try whose except clause calls st.warning.  On an
\* order_items table without rows (object columns) the revenue block raises
\* at total_items_sold / total_orders, and the category block raises
\* TypeError at nlargest (line 145), before top_categories_volume is set.
ComputeMainInsightsResult(ss) ==
    IF ~ss.data_loaded \/ ss.orders = None \/ ss.order_items = None THEN None
    ELSE LET items == ss.order_items[1].rows
             total_orders == Cardinality({items[i].order_id : i \in 1..Len(items)})
             delay == ComputeMainInsightsDelay(ss.orders[1])
         IN Some([fn |-> "compute_main_insights",
                  total_revenue |-> SumSeq([i \in 1..Len(items) |-> TotalOf(items[i])]),
                  total_orders |-> total_orders,
                  total_items_sold |-> Len(items),
                  \* total_items_sold / total_orders, caught by the except clause,
                  \* which calls st.warning
                  revenue_warning |-> IF total_orders = 0 THEN "ZeroDivisionError" ELSE "",
                  delayed_count |-> IF Len(delay.clean) > 0
                                    THEN Some(Len(delay.delayed)) ELSE None,
                  on_time_rate |-> delay.on_time_rate,
                  delivery_warning |-> delay.warning,
                  category_warning |-> IF ss.products # None /\ Len(items) = 0
                                       THEN "TypeError" ELSE "",
                  top_categories_volume |->
                      IF ss.products = None \/ Len(items) = 0 THEN None
                      ELSE Some(Len(MergeLeft(items, ss.products[1])))])

\* pages/1 main: the header, the guard, the call of the memoized
\* compute_main_insights (which takes no argument), and the render.  On a
\* miss the body runs and, once past its two early returns, adds the column
\* to the session's order_items.  A rerun ends the run
\*   before the call: nothing changes;
\*   at a st.warning in the body (an empty order_items table, an orders
\*     table on which the delivery block raises): the table is changed,
\*     nothing is cached;
\*   at the end of the spinner of st.cache_data or later: the table is
\*     changed and the value is cached, nothing is shown.
RenderMainInsightsPage ==
    LET computed == ComputeMainInsightsResult(session_state)
        called == CallThroughCache("compute_main_insights", <<>>, computed)
        insights == called.value
        body_ran == [session_state EXCEPT
                        !.order_items = IF ~called.hit /\ computed # None
                                        THEN Some(AddTotalRevenue(@[1])) ELSE @]
    IN \/ /\ shown' = Stopped("Main_Insights")
          /\ UNCHANGED <<session_state, data_cache, analysis_cache, now, body_runs,
                         notSessVars>>
       \/ /\ ~session_state.data_loaded
          /\ shown' = Screen("Main_Insights", "stopped: data not loaded", None, FALSE)
          /\ UNCHANGED <<session_state, data_cache, analysis_cache, now, body_runs,
                         notSessVars>>
       \/ /\ session_state.data_loaded
          /\ \/ /\ analysis_cache' = called.cache
                /\ shown' = Screen("Main_Insights",
                                   IF insights = None
                                   THEN "stopped: failed to compute insights"
                                   ELSE "rendered",
                                   insights, called.hit)
             \/ /\ ~called.hit /\ computed # None
                /\ \/ computed[1].revenue_warning # ""
                   \/ computed[1].delivery_warning # ""
                   \/ computed[1].category_warning # ""
                /\ analysis_cache' = analysis_cache
                /\ shown' = Stopped("Main_Insights")
             \/ /\ ~called.hit
                /\ analysis_cache' = called.cache
                /\ shown' = Stopped("Main_Insights")
          /\ session_state' = body_ran
          /\ UNCHANGED <<data_cache, now, body_runs, notSessVars>>

\* pages/2: main, with initialize_page.  get_analyzer_and_results is memoized
\* on the content of the two tables, their columns included.  A rerun ends
\* the run
\*   before the call: nothing changes;
\*   at the end of the spinner of st.cache_data, after a miss has run the
\*     body and stored its value: nothing is assigned;
\*   at the end of that spinner, after a miss whose body has raised: the
\*     rerun takes the place of the exception, nothing is stored or shown;
\*   at the end of the page's spinner or in the render: the keys are set,
\*     nothing is shown.
RenderRevenueOverviewPage ==
    \/ /\ shown' = Stopped("Revenue_Overview")
       /\ UNCHANGED <<session_state, data_cache, analysis_cache, now, body_runs,
                      notSessVars>>
    \/ /\ ~session_state.data_loaded
       /\ shown' = Screen("Revenue_Overview", "stopped: data not loaded", None, FALSE)
       /\ UNCHANGED <<session_state, data_cache, analysis_cache, now, body_runs,
                      notSessVars>>
    \/ /\ session_state.data_loaded
       /\ session_state.order_items = None \/ session_state.products = None
       /\ shown' = Screen("Revenue_Overview", "stopped: required data not available",
                          None, FALSE)
       /\ UNCHANGED <<session_state, data_cache, analysis_cache, now, body_runs,
                      notSessVars>>
    \/ /\ session_state.data_loaded
       /\ session_state.order_items # None /\ session_state.products # None
       /\ LET \* line 132: len(st.session_state.orders), after the metrics
              ended == IF session_state.orders = None THEN "raised: TypeError"
                       ELSE "rendered"
              arg == <<session_state.order_items[1], session_state.products[1]>>
              computed == RunComprehensiveAnalysisResult(arg[1].rows, arg[2])
              called == CallThroughCache("get_analyzer_and_results", arg, computed)
              counted == [body_runs EXCEPT
                             !.run_comprehensive_analysis =
                                 IF called.hit THEN @ ELSE CountRun(@)]
              assigned == [session_state EXCEPT !.revenue_analysis = Some(called.value)]
          IN \/ /\ session_state.revenue_analysis # None
                /\ shown' = Screen("Revenue_Overview", ended,
                                   session_state.revenue_analysis, FALSE)
                /\ UNCHANGED <<session_state, analysis_cache, body_runs>>
             \/ \* the exception leaves the function: nothing is cached or assigned
                /\ session_state.revenue_analysis = None
                /\ ~called.hit /\ computed.raised # ""
                /\ \/ shown' = Screen("Revenue_Overview",
                                      "raised: " \o computed.raised, None, FALSE)
                   \/ shown' = Stopped("Revenue_Overview")
                /\ body_runs' = counted
                /\ UNCHANGED <<session_state, analysis_cache>>
             \/ /\ session_state.revenue_analysis = None
                /\ called.hit \/ computed.raised = ""
                /\ analysis_cache' = called.cache
                /\ body_runs' = counted
                /\ \/ /\ session_state' = assigned
                      /\ shown' = Screen("Revenue_Overview", ended,
                                         Some(called.value), called.hit)
                   \/ /\ ~called.hit
                      /\ session_state' = session_state
                      /\ shown' = Stopped("Revenue_Overview")
                   \/ /\ session_state' = assigned
                      /\ shown' = Stopped("Revenue_Overview")
       /\ UNCHANGED <<data_cache, now, notSessVars>>

\* the entries of a loader and of the analyses that are still served at a time;
\* the caches drop an entry once its ttl has run out
LoaderEntryAt(entry, time) ==
    IF entry # None /\ time < entry[1].stored_at + CacheTtl THEN entry ELSE None

AnalysisEntriesAt(time) == {e \in analysis_cache : time < e.stored_at + CacheTtl}

\* time passes
Tick ==
    /\ now < MaxTicks * TickSeconds
    /\ now' = now + TickSeconds
    /\ data_cache' = [f \in DOMAIN data_cache |-> LoaderEntryAt(data_cache[f], now')]
    /\ analysis_cache' = AnalysisEntriesAt(now')
    /\ UNCHANGED <<session_state, shown, body_runs, notSessVars>>

-----------------------------------------------------------------------------
(* The specifications: each starts one part of the program on any input     *)
(* within the bounds and leaves the other parts idle.                       *)

InitOrders == orders \in OrdersFrames /\ derived = NoResult
IdleOrders ==
    /\ orders = [date_dtype |-> "object", has_order_status |-> TRUE, rows |-> <<>>]
    /\ derived = NoResult

InitRevenue ==
    /\ order_items \in SeqsUpTo(ItemRows, MaxItems)
    /\ products \in SeqsUpTo(ProductRows, MaxProducts)
    /\ revenue = NoCall
IdleRevenue == order_items = <<>> /\ products = <<>> /\ revenue = NoCall

InitGini == state_stats \in StateStatsTables /\ regional = NoChart
IdleGini == state_stats = <<>> /\ regional = NoChart

InitColumns == df \in Frames /\ call = NotCalled
IdleColumns == df = [columns |-> AllColumns, n_rows |-> 0] /\ call = NotCalled

NextOrders ==
    \/ GetDelayAnalysis
    \/ GetDeliveryPerformanceAnalysis
    \/ ComputeMainInsights
    \/ GetDeliveryPerformance
    \/ GetDelayedOrdersByStage

\* every module that counts late orders
NextLate == NextOrders \/ GetGeographicAnalysisOfOrders

NextBins ==
    \/ GetDeliveryPerformanceAnalysis
    \/ CreateDelaySeverityChart
    \/ RenderDelayHeatmap

NextRevenue ==
    RunComprehensiveAnalysis \/ GetVendorAnalysis \/ CreateVendorConcentrationChart

NextGini ==
    \/ CreateRegionalConcentrationChart
    \/ \E i \in 1..Len(state_stats) : ChartAfterConcentration(i)

InitAnalyzer == delay_column \in DelayColumns /\ analyzer = NoAnalyzer
IdleAnalyzer ==
    delay_column = [present |-> FALSE, dtype |-> "", cells |-> <<>>] /\ analyzer = NoAnalyzer

IdleGeo == geo_orders = [delay_dtype |-> "object", rows |-> <<>>] /\ geo = NoGeo

NextAnalyzer == NewOrdersAnalyzer

NextColumns == CreateDelayHeatmap \/ GetGeographicAnalysis \/ GetTimelineAnalysis

InitSession ==
    /\ session_state = InitialSessionState
    /\ data_cache = [load_order_items |-> None, load_products |-> None, load_orders |-> None]
    /\ analysis_cache = {}
    /\ now = 0
    /\ shown = HomeScreen(InitialSessionState, FALSE, FALSE)
    /\ body_runs = [load_order_items |-> 0, load_products |-> 0, load_orders |-> 0,
                    run_comprehensive_analysis |-> 0]

\* the home page, the Load All Data run and the passing of time
NextHome ==
    \/ RenderHome
    \/ LoadAllData
    \/ LoadProducts
    \/ LoadOrders
    \/ FinishLoadAllData
    \/ Tick

\* a session in which, of the report pages, the two that analyse the orders
\* table are visited
NextReports ==
    \/ NextHome
    \/ RenderDelayAnalysisPage
    \/ RenderDeliveryPerformancePage

\* a session in which, of the report pages, the two that read order_items
\* are visited
NextInsights ==
    \/ NextHome
    \/ RenderMainInsightsPage
    \/ RenderRevenueOverviewPage

Next ==
    \/ NextHome
    \/ RenderDelayAnalysisPage
    \/ RenderDeliveryPerformancePage
    \/ RenderMainInsightsPage
    \/ RenderRevenueOverviewPage

IdleOthers == IdleRevenue /\ IdleGini /\ IdleColumns /\ IdleAnalyzer /\ InitSession

StartOrders == InitOrders /\ IdleGeo /\ IdleOthers

\* an orders table with its dates for the pages and the analyzer, or an
\* orders table with its Delay column for the geographic analysis
StartLate ==
    /\ \/ InitOrders /\ IdleGeo
       \/ IdleOrders /\ geo_orders \in GeoOrdersFrames /\ geo = NoGeo
    /\ IdleOthers

StartBins ==
    /\ orders \in WideOrdersFrames /\ derived = NoResult
    /\ IdleGeo /\ IdleOthers
StartRevenue ==
    InitRevenue /\ IdleOrders /\ IdleGini /\ IdleColumns /\ IdleAnalyzer /\ IdleGeo /\ InitSession
StartGini ==
    InitGini /\ IdleOrders /\ IdleRevenue /\ IdleColumns /\ IdleAnalyzer /\ IdleGeo /\ InitSession
StartColumns ==
    InitColumns /\ IdleOrders /\ IdleRevenue /\ IdleGini /\ IdleAnalyzer /\ IdleGeo /\ InitSession
StartAnalyzer ==
    InitAnalyzer /\ IdleOrders /\ IdleRevenue /\ IdleGini /\ IdleColumns /\ IdleGeo /\ InitSession

SpecOrders == StartOrders /\ [][NextOrders]_vars

SpecLate == StartLate /\ [][NextLate]_vars

SpecBins == StartBins /\ [][NextBins]_vars

SpecRevenue == StartRevenue /\ [][NextRevenue]_vars

SpecGini == StartGini /\ [][NextGini]_vars

SpecColumns == StartColumns /\ [][NextColumns]_vars

SpecAnalyzer == StartAnalyzer /\ [][NextAnalyzer]_vars

Init ==
    InitSession /\ IdleOrders /\ IdleRevenue /\ IdleGini /\ IdleColumns /\ IdleAnalyzer /\ IdleGeo

\* the sessions that visit one pair of report pages: the two pairs share the
\* tables and the home page and keep separate keys and cache entries
SpecReports == Init /\ [][NextReports]_vars

SpecInsights == Init /\ [][NextInsights]_vars

\* the session that visits every page
Spec == Init /\ [][Next]_vars

-----------------------------------------------------------------------------
(* Properties of the orders analyses (under SpecOrders; C14 under SpecLate). *)

\* C1: for every order row, the Delay an analysis derives is the estimated
\* delivery date minus the delivered date (NaT when either date is missing or
\* does not parse), whichever of the three analyses derived it.
C1_DelayIsEstimatedMinusDelivered ==
    derived.fn # "none" =>
        /\ Len(derived.rows) = Len(orders.rows)
        /\ \A i \in 1..Len(orders.rows) :
              LET est == orders.rows[i].order_estimated_delivery_date
                  del == orders.rows[i].order_delivered_customer_date
              IN IF est.kind = "date" /\ del.kind = "date"
                 THEN derived.rows[i].Delay = [nat |-> FALSE, t |-> est.t - del.t]
                 ELSE derived.rows[i].Delay.nat

\* an analysis has derived the Delay of an order delivered after its estimate
C1_Witness ==
    /\ derived.fn = "compute_main_insights"
    /\ \E i \in 1..Len(orders.rows) :
          /\ orders.rows[i].order_estimated_delivery_date.kind = "date"
          /\ orders.rows[i].order_delivered_customer_date.kind = "date"
          /\ orders.rows[i].order_estimated_delivery_date.t
                < orders.rows[i].order_delivered_customer_date.t
          /\ derived.rows[i].Delay.t < 0

\* the order of row i was delivered after its estimated day (both dates known)
RawLate(i) ==
    /\ orders.rows[i].order_estimated_delivery_date.kind = "date"
    /\ orders.rows[i].order_delivered_customer_date.kind = "date"
    /\ orders.rows[i].order_delivered_customer_date.t
          > orders.rows[i].order_estimated_delivery_date.t

\* the raw order_status of row i is 'delivered'
RawDelivered(i) == orders.has_order_status /\ orders.rows[i].order_status = "delivered"

\* the orders of the table that a module looks at when it counts late orders:
\* every order, the delivered ones, or those of the status it was asked for
Considered(i) ==
    CASE derived.fn \in {"get_delay_analysis", "get_delivery_performance"} -> TRUE
      [] derived.fn = "get_delivery_performance_analysis" ->
            ~orders.has_order_status \/ RawDelivered(i)
      [] derived.fn = "compute_main_insights" -> RawDelivered(i)
      [] derived.fn = "get_delayed_orders_by_stage" ->
            \/ derived.delivery_status = "All"
            \/ derived.delivery_status = "Delivered"
                  /\ (~orders.has_order_status \/ RawDelivered(i))
            \/ derived.delivery_status = "Not_Delivered"
                  /\ orders.has_order_status /\ ~RawDelivered(i)

\* the number of orders a module of the orders analyses counted as late
CountedLate ==
    IF derived.fn = "get_delivery_performance"
    THEN Len(derived.delay_delivered) + Len(derived.delay_not_delivered)
    ELSE Len(derived.delayed)

\* the Delay cell of a row is a strictly negative time, as a timedelta or as
\* the string of one
NegativeDelay(cell) == cell.kind \in {"td", "str"} /\ cell.v < 0

\* C14 as claimed: in every module that classifies orders by delay, the
\* orders counted as late are exactly the orders the module looks at whose
\* Delay is strictly negative (delivered after the estimated day); an order
\* with a zero or positive Delay is never counted as late.
C14_LateIffDelayNegative ==
    /\ derived.fn # "none" =>
          /\ CountedLate
                = Cardinality({i \in 1..Len(orders.rows) : Considered(i) /\ RawLate(i)})
          /\ \A i \in 1..Len(derived.delayed) :
                ~derived.delayed[i].Delay.nat /\ derived.delayed[i].Delay.t < 0
    /\ geo.fn = "get_geographic_analysis" =>
          \A j \in 1..Len(geo.state_stats) :
              geo.state_stats[j].delayed_orders
                = Cardinality({i \in 1..Len(geo_orders.rows) :
                                 /\ geo_orders.rows[i].customer_state
                                       = geo.state_stats[j].customer_state
                                 /\ NegativeDelay(geo_orders.rows[i].Delay)})

\* C15 as claimed: every row of the table a page derives has a Net_State
\* that is 'Delivered' or 'Not_Delivered', and it is 'Delivered' exactly
\* when the raw order_status of the row is 'delivered'.
C15_NetStateIffOrderStatusDelivered ==
    derived.fn \in {"get_delay_analysis", "get_delivery_performance_analysis"} =>
        /\ Len(derived.rows) = Len(orders.rows)
        /\ \A i \in 1..Len(orders.rows) :
              /\ derived.rows[i].Net_State \in {"Delivered", "Not_Delivered"}
              /\ derived.rows[i].Net_State = "Delivered" <=> RawDelivered(i)

\* C15, amended: every row of the table a page derives has a Net_State that
\* is 'Delivered' or 'Not_Delivered'; when the orders table has an
\* order_status column it is 'Delivered' exactly when the raw order_status
\* of the row is 'delivered', and when the table has no order_status column
\* it is 'Delivered' for every row.
C15_NetStateIsBinary ==
    derived.fn \in {"get_delay_analysis", "get_delivery_performance_analysis"} =>
        /\ Len(derived.rows) = Len(orders.rows)
        /\ \A i \in 1..Len(orders.rows) :
              /\ derived.rows[i].Net_State \in {"Delivered", "Not_Delivered"}
              /\ derived.rows[i].Net_State = "Delivered"
                    <=> (~orders.has_order_status \/ RawDelivered(i))

\* a page has derived Net_State for a delivered and for a shipped order
C15_Witness ==
    /\ derived.fn = "get_delivery_performance_analysis"
    /\ orders.has_order_status
    /\ \E i, j \in 1..Len(derived.rows) :
          /\ orders.rows[i].order_status = "delivered"
          /\ orders.rows[j].order_status = "shipped"
          /\ derived.rows[i].Net_State = "Delivered"
          /\ derived.rows[j].Net_State = "Not_Delivered"

\* the table has a delivered order whose two dates are known, so that each of
\* the three modules reports an on-time rate from at least one order
HasDeliveredWithDelay ==
    \E i \in 1..Len(orders.rows) :
        /\ RawDelivered(i)
        /\ orders.rows[i].order_estimated_delivery_date.kind = "date"
        /\ orders.rows[i].order_delivered_customer_date.kind = "date"

\* C20 as claimed: the on-time rate a module reports for an orders table is
\* the on-time rate each of the three modules reports for that table.
C20_OnTimeRateAgrees ==
    (/\ derived.fn \in {"compute_main_insights", "get_delivery_performance_analysis",
                        "get_delivery_performance"}
     /\ HasDeliveredWithDelay)
        => /\ derived.on_time_rate = ComputeMainInsightsDelay(orders).on_time_rate
           /\ derived.on_time_rate = GetDeliveryPerformanceAnalysisResult(orders).on_time_rate
           /\ derived.on_time_rate = GetDeliveryPerformanceResult(orders).on_time_rate

GroupNames ==
    {"delay_delivered", "delay_not_delivered", "no_delay_delivered", "no_delay_not_delivered"}

\* C21 as claimed: in the result of get_delivery_performance no order is in
\* two of the four groups, and the sizes of the four groups sum to
\* total_orders.
C21_GroupsPartitionTotalOrders ==
    derived.fn = "get_delivery_performance" =>
        /\ \A g \in GroupNames : \A h \in GroupNames \ {g} :
              derived.index[g] \cap derived.index[h] = {}
        /\ Len(derived.delay_delivered) + Len(derived.delay_not_delivered)
             + Len(derived.no_delay_delivered) + Len(derived.no_delay_not_delivered)
             = derived.total_orders

-----------------------------------------------------------------------------
(* Properties of the binning of delays (under SpecBins). *)

\* the orders of the table that are late: both dates present, delivered
\* after the estimated date
LateOrders == {i \in 1..Len(orders.rows) :
                  /\ orders.rows[i].order_delivered_customer_date.kind = "date"
                  /\ orders.rows[i].order_delivered_customer_date.t
                        > orders.rows[i].order_estimated_delivery_date.t}

DeliveredOrders == {i \in 1..Len(orders.rows) : orders.rows[i].order_status = "delivered"}

\* C22 as claimed: when create_delay_heatmap has drawn a heatmap of a
\* non-empty table of delayed orders, the counts of its cells sum to the
\* number of orders it was given.
C22_HeatmapCellsSumToDelayedOrders ==
    (derived.fn = "create_delay_heatmap" /\ ~derived.placeholder) =>
        SumSeq([a \in 1..Len(derived.z) |-> SumSeq(derived.z[a])]) = Len(derived.rows)

\* C23 as claimed: when the delivery performance analysis has counted the
\* SLA tiers, every delivered order meets the condition of exactly one tier
\* and the five counts sum to total_delivered.
C23_SlaTiersPartitionDelivered ==
    (derived.fn = "get_delivery_performance_analysis" /\ derived.sla_compliance # <<>>) =>
        LET counts == derived.sla_compliance[1]
        IN /\ derived.total_delivered = Cardinality(DeliveredOrders)
           /\ \A i \in DeliveredOrders :
                 Cardinality({tier \in SlaTierNames :
                                 InSlaTier(tier, DelayDaysOf(derived.rows[i].Delay))}) = 1
           /\ counts["Within 1 day"] + counts["1-3 days late"] + counts["3-7 days late"]
                + counts["More than 7 days late"] + counts["Early delivery"]
                = derived.total_delivered

\* C24: the severity chart is drawn of every late order of the table, and
\* the counts of its five classes sum to the number of late orders: no late
\* order is without a class or in two.
C24_SeverityCountsSumToDelayed ==
    derived.fn = "create_delay_severity_chart" =>
        /\ Len(derived.rows) = Cardinality(LateOrders)
        /\ Len(derived.severity_counts) = Len(SeverityLabels)
        /\ SumSeq(derived.severity_counts) = Len(derived.rows)

\* the chart has counted two late orders, one more than thirty days late and
\* one exactly twenty days late, both as very severe
C24_Witness ==
    /\ derived.fn = "create_delay_severity_chart"
    /\ Len(derived.rows) = 2
    /\ derived.rows[1].delay_days = Rat(-31, 1)
    /\ derived.rows[2].delay_days = Rat(-20, 1)
    /\ derived.severity_counts = <<2, 0, 0, 0, 0>>

-----------------------------------------------------------------------------
(* Properties of the revenue analyses (under SpecRevenue). *)

RevenueReturned == revenue.fn = "run_comprehensive_analysis" /\ revenue.raised = ""

\* C2: after run_comprehensive_analysis the per-category totals of
\* category_revenue_all sum to total_revenue, which is the revenue of every
\* joined item: no item is lost for want of a category or of a product row.
C2_CategoryRevenueSumsToTotal ==
    RevenueReturned =>
        /\ SumSeq(TotalsOf(revenue.category_revenue_all)) = revenue.total_revenue
        /\ revenue.total_revenue = SumSeq(TotalsOf(revenue.order_items_detailed))

\* the analysis has run on items of which one has no product row and another
\* joins a product without a category, next to a categorised one
C2_Witness ==
    /\ RevenueReturned
    /\ \E i \in 1..Len(order_items) : order_items[i].product_id = "p2"
    /\ \E i \in 1..Len(order_items) : order_items[i].product_id = "p1"
    /\ \E j \in 1..Len(products) : products[j].product_category_name = NaN
    /\ Len(revenue.category_revenue_all) = 1
    /\ revenue.category_revenue_all[1].product_category_name = "Others"
    /\ revenue.total_revenue > 0

\* C3 as claimed: after run_comprehensive_analysis the per-vendor totals of
\* vendor_revenue_all sum to total_revenue, also when a seller_id is missing.
C3_VendorRevenueSumsToTotal ==
    RevenueReturned =>
        SumSeq(TotalsOf(revenue.vendor_revenue_all)) = revenue.total_revenue

\* C6 as claimed: for at least two vendors with positive total revenue, the
\* Gini coefficient of the vendor concentration chart lies in [0, 1].
C6_VendorGiniBetweenZeroAndOne ==
    (/\ revenue.fn = "create_vendor_concentration_chart"
     /\ Len(revenue.vendor_all) >= 2
     /\ SumSeq(TotalsOf(revenue.vendor_all)) > 0)
        => (RatLeq(<<0, 1>>, revenue.gini_coefficient)
              /\ RatLeq(revenue.gini_coefficient, <<1, 1>>))

\* C7 as claimed: a transform or chart function given an empty table returns
\* a result and does not raise.
C7_EmptyInputDoesNotRaise ==
    (order_items = <<>> /\ revenue.fn # "none") => revenue.raised = ""

-----------------------------------------------------------------------------
(* Properties of the regional concentration chart (under SpecGini). *)

RegionalDrawn == regional.fn = "create_regional_concentration_chart" /\ ~regional.placeholder

\* C4 as claimed: for N >= 2 states that all have the same order share, the
\* Gini coefficient the regional concentration chart returns is 0.
C4_EqualSharesGiveZeroGini ==
    (/\ RegionalDrawn
     /\ Len(state_stats) >= 2
     /\ \A i, j \in 1..Len(state_stats) :
            state_stats[i].total_orders = state_stats[j].total_orders)
        => regional.gini_coefficient = <<0, 1>>

\* C5 as claimed: with the number of states fixed, the Gini coefficient grows
\* when order share moves into the largest state (and so approaches its
\* largest value, 1, as that state's share approaches 100%).
C5_GiniGrowsWithConcentration ==
    (RegionalDrawn /\ regional.previous # <<>>)
        => RatLess(regional.previous[1], regional.gini_coefficient)

-----------------------------------------------------------------------------
(* Properties of column handling (under SpecColumns). *)

\* C8 as claimed: when a column a function needs is absent from its input,
\* the function returns an empty result or a "no data" placeholder chart and
\* does not raise.
C8_MissingColumnShortCircuits ==
    (call.fn # "none" /\ ~NeededPresent(call.fn, df.columns))
        => call.outcome \in {"empty", "placeholder"}

-----------------------------------------------------------------------------
(* Properties of OrdersAnalyzer construction (under SpecAnalyzer). *)

\* the Delay column is not a timedelta and the plain pd.to_timedelta fails on it
PlainConversionFails(col) ==
    /\ col.present
    /\ col.dtype # "timedelta64"
    /\ \/ col.dtype \in {"bool", "datetime64"}
       \/ col.dtype = "object" /\ \E i \in 1..Len(col.cells) : col.cells[i].kind = "bad"

\* no conversion the constructor tries can succeed on it
EveryConversionFails(col) ==
    /\ PlainConversionFails(col)
    /\ \/ col.dtype \in {"bool", "object"}
       \/ \E i \in 1..Len(col.cells) : col.cells[i].kind = "dt"

Constructed == analyzer.built \/ analyzer.raised # ""

\* the conversions after the plain one, in the order of the claim
AlternateLadder == <<"unit_D", "astype_str">>

\* C9 as claimed: when the Delay column is not a timedelta and cannot be
\* converted, constructing the OrdersAnalyzer does not raise; after the plain
\* conversion the alternate ones are tried in turn, as numeric days and then
\* from the string form, up to the first that succeeds, and when every
\* attempt has failed a warning is printed and Delay is set to missing.
C9_TriesDaysThenStringForm ==
    (Constructed /\ PlainConversionFails(delay_column)) =>
        /\ analyzer.raised = ""
        /\ \A half \in {analyzer.orders, analyzer.orders_clean} :
              /\ \E k \in 1..Len(AlternateLadder) :
                    half.attempts = <<"to_timedelta">> \o SubSeq(AlternateLadder, 1, k)
              /\ half.warned => /\ half.attempts = <<"to_timedelta">> \o AlternateLadder
                                /\ \A i \in 1..Len(half.cells) : half.cells[i].kind = "nat"

\* C9 as amended: when the Delay column is not a timedelta and the plain
\* conversion fails on it, constructing the OrdersAnalyzer does not raise;
\* one alternate conversion is tried, chosen by the dtype of the column (as
\* days for a numeric dtype, from the string form otherwise), and when it
\* fails too a warning is printed and every Delay is set to NaT, in orders
\* and in orders_clean.
C9_UnconvertibleDelayFallsBack ==
    (Constructed /\ PlainConversionFails(delay_column)) =>
        /\ analyzer.raised = ""
        /\ analyzer.built
        /\ \A half \in {analyzer.orders, analyzer.orders_clean} :
              /\ half.attempts =
                    <<"to_timedelta",
                      IF delay_column.dtype = "bool" THEN "unit_D" ELSE "astype_str">>
              /\ half.warned = EveryConversionFails(delay_column)
              /\ half.warned =>
                    /\ Len(half.cells) = Len(delay_column.cells)
                    /\ \A i \in 1..Len(half.cells) : half.cells[i].kind = "nat"

\* an analyzer has been built from a Delay column of strings of which one is
\* a timedelta and one is not
C9_Witness ==
    /\ analyzer.built
    /\ delay_column.dtype = "object"
    /\ \E i \in 1..Len(delay_column.cells) : delay_column.cells[i].kind = "bad"
    /\ \E i \in 1..Len(delay_column.cells) : delay_column.cells[i].kind = "str"
    /\ analyzer.orders.warned

-----------------------------------------------------------------------------
(* Properties of the session (C10 under SpecReports, the others under       *)
(* SpecInsights).                                                          *)

\* C10: the analysis a report page shows was derived from the orders table
\* of the latest load: when the Delay Analysis or the Delivery Performance
\* page renders, it shows what its analysis function gives for the orders
\* table now in the session.
C10_ShownAnalysisIsOfTheLatestLoad ==
    (shown.outcome = "rendered"
        /\ shown.page \in {"Delay_Analysis", "Delivery_Performance"}) =>
        shown.analysis =
            Some(IF shown.page = "Delay_Analysis"
                 THEN GetDelayAnalysisResult(session_state.orders[1])
                 ELSE GetDeliveryPerformanceAnalysisResult(session_state.orders[1]))

\* what an execution of a page's memoized function, without its cache, returns
\* in the present session state
UncachedNow(page) ==
    CASE page = "Main_Insights" -> ComputeMainInsightsResult(session_state)
      [] page = "Delay_Analysis" -> Some(OrdersAnalysisNow("get_delay_analysis"))
      [] page = "Delivery_Performance" ->
            Some(OrdersAnalysisNow("get_delivery_performance_analysis"))
      [] page = "Revenue_Overview" ->
            Some(RunComprehensiveAnalysisResult(session_state.order_items[1].rows,
                                                session_state.products[1]))

\* C11 as claimed: when a page's memoized function returns a value from its
\* cache, that value is what the function would return, executed without the
\* cache, at that moment.
C11_CachedValueEqualsUncached ==
    (shown.page # "home" /\ shown.cache_hit) => shown.analysis = UncachedNow(shown.page)

\* C12 as claimed: in one session each of the three tables is fetched from its
\* source at most once.
C12_EachTableFetchedAtMostOnce ==
    /\ body_runs.load_order_items <= 1
    /\ body_runs.load_products <= 1
    /\ body_runs.load_orders <= 1

\* C13 as claimed: the tables held in the session state are the tables as
\* they were loaded: no analysis adds, removes or alters a column.
C13_AnalysesLeaveTablesUnchanged ==
    /\ session_state.order_items \in Fetched(RemoteOrderItems)
    /\ session_state.products \in Fetched(RemoteProducts)
    /\ session_state.orders \in Fetched(RemoteOrders)

AllTablesLoaded ==
    /\ session_state.order_items # None
    /\ session_state.products # None
    /\ session_state.orders # None

\* C16 as claimed: data_loaded is True only if orders, order_items and
\* products in the session state are all non-None.
C16_DataLoadedOnlyIfAllTables == session_state.data_loaded => AllTablesLoaded

\* the tables of the session state that a page reads
TablesRead(page) ==
    CASE page = "Main_Insights" -> {"orders", "order_items", "products"}
      [] page = "Revenue_Overview" -> {"order_items", "products", "orders"}
      [] page = "Delay_Analysis" -> {"orders"}
      [] page = "Delivery_Performance" -> {"orders"}

\* C17 as claimed: a report page displays an analysis only when data_loaded is
\* True and every table the page reads is non-None.
C17_PagesGuardTheirTables ==
    (shown.page # "home" /\ shown.analysis # None) =>
        /\ session_state.data_loaded
        /\ \A table \in TablesRead(shown.page) : session_state[table] # None

\* C18 as claimed: a Load All Data run that has ended, and that was made
\* while all three sources were reachable, has loaded all three tables and
\* set data_loaded to True (a click can only fall short of that after an
\* earlier attempt has failed).
C18_ReloadWhenReachableLoadsAll ==
    shown = HomeScreen(session_state, TRUE, TRUE) =>
        session_state.data_loaded /\ AllTablesLoaded

\* C19 as claimed: in one session run_comprehensive_analysis runs at most
\* once, in the first render of the Revenue Overview page.
C19_RevenueAnalysisRunsOnce == body_runs.run_comprehensive_analysis <= 1

====
